---- MODULE Spec2Model ----
(***************************************************************************)
(* The four Gradio demo scripts of the repository as one state machine.    *)
(*                                                                         *)
(*   hello_gradio.py              gr.Interface(fn=greet, ...)              *)
(*   hello_gradio_blocks.py       greet_button.click(greet, ...)           *)
(*   gradio_components.py         gr.Interface(fn=compute, ...)            *)
(*   gradio_components_blocks.py  compute_button.click(compute, ...)       *)
(*                                                                         *)
(* A script declares components (fields) and ONE binding: input fields ->  *)
(* backend function -> output fields, fired by one trigger event (the      *)
(* Submit button of gr.Interface, the explicit button of gr.Blocks).  The  *)
(* state is the declared components and their current values; the steps    *)
(* are the user's edits of the interactive components and the trigger.     *)
(*                                                                         *)
(* Python values are tagged records, so that a str, an int, None and a     *)
(* tuple are distinct values that can be compared with each other.         *)
(***************************************************************************)
EXTENDS Integers, Sequences, FiniteSets, TLC

VARIABLES
    fields,   \* launched script -> its binding: the declared input and output components
    value,    \* launched script -> component name -> current value of the component
    last,     \* launched script -> <<payload>> of the most recent trigger event, <<>> before the first
    ref       \* launched script -> observer of repeated invocations (one remembered trigger event)

vars == <<fields, value, last, ref>>

----------------------------------------------------------------------------
(* Bounds of the model *)

\* Number of distinct non-empty texts the user types into a Textbox.
MaxNames == 1

NameAt(i) ==
    CASE i = 1 -> "Anna"
      [] i = 2 -> "World"
      [] OTHER -> "Name" \o ToString(i)

\* The texts a Textbox can hold: the empty text it starts with and the typed ones.
Names == {""} \cup {NameAt(i) : i \in 1..MaxNames}

----------------------------------------------------------------------------
(* Python values *)

PyStr(s) == [str |-> s]
PyInt(i) == [int |-> i]
PyNone == [none |-> TRUE]
PyTuple(t) == [tuple |-> t]

IsStr(v) == DOMAIN v = {"str"}
IsInt(v) == DOMAIN v = {"int"}
IsTuple(v) == DOMAIN v = {"tuple"}

\* A replacement field {v} of an f-string: format(v, ""), which is str(v).
Format(v) ==
    IF IsStr(v) THEN v.str
    ELSE IF IsInt(v) THEN ToString(v.int)
    ELSE "None"

\* a * n for an int a (the slider delivers an int; any other operand has no
\* field int and stops the evaluation, as the TypeError stops the call).
PyMul(a, n) == PyInt(a.int * n)

\* The number of characters of the text s from position i on, an escape
\* sequence (\uXXXX, \UXXXXXXXX) standing for the one character it names.
RECURSIVE Characters(_, _)
Characters(s, i) ==
    IF i > Len(s) THEN 0
    ELSE IF i < Len(s) /\ SubSeq(s, i, i + 1) = "\\u" THEN 1 + Characters(s, i + 6)
    ELSE IF i < Len(s) /\ SubSeq(s, i, i + 1) = "\\U" THEN 1 + Characters(s, i + 10)
    ELSE 1 + Characters(s, i + 1)

\* len(v): the number of elements of a tuple, the number of characters of a str.
PyLen(v) == IF IsTuple(v) THEN Len(v.tuple) ELSE Characters(v.str, 1)

\* U+1F642 SLIGHTLY SMILING FACE, the last character of the greeting.  The
\* code point lies outside the characters a TLA+ string literal can hold, so
\* it is written as its Python escape sequence.  Every other character
\* outside ASCII is written the same way (ü for u-umlaut, ä
\* for a-umlaut, ß for sharp s): TLC does not keep such characters intact
\* in states it writes to disk.
SlightlySmilingFace == "\\U0001F642"

----------------------------------------------------------------------------
(* Backend functions *)

\* hello_gradio.py: return f"Hallo, {name}!! <U+1F642>"
greet(name) == PyStr("Hallo, " \o Format(name) \o "!! " \o SlightlySmilingFace)

\* Mutant of greet_blocks: one exclamation mark is lost.
greet_blocks_one_mark(name) == PyStr("Hallo, " \o Format(name) \o "! " \o SlightlySmilingFace)

\* hello_gradio_blocks.py: the same function, defined again
greet_blocks(name) == PyStr("Hallo, " \o Format(name) \o "!! " \o SlightlySmilingFace)

\* Mutant of compute: the score is the intensity itself, not ten times it.
compute_unscaled(name, stimmung, intensitaet) ==
    LET message == PyStr(Format(name) \o " f\\u00FChlt sich " \o Format(stimmung))
        score == intensitaet
    IN  PyTuple(<<message, score>>)

\* gradio_components.py
compute(name, stimmung, intensitaet) ==
    LET message == PyStr(Format(name) \o " f\\u00FChlt sich " \o Format(stimmung))
        score == PyMul(intensitaet, 10)
    IN  PyTuple(<<message, score>>)

\* Mutant of compute_blocks: the function keeps state between calls (every
\* call after the first adds one to the score).
compute_blocks_stateful(name, stimmung, intensitaet) ==
    LET message == PyStr(Format(name) \o " f\\u00FChlt sich " \o Format(stimmung))
        calls == IF \E s \in DOMAIN last : last[s] # <<>> THEN 1 ELSE 0
        score == PyInt(intensitaet.int * 10 + calls)
    IN  PyTuple(<<message, score>>)

\* gradio_components_blocks.py: the same function, defined again
compute_blocks(name, stimmung, intensitaet) ==
    LET message == PyStr(Format(name) \o " f\\u00FChlt sich " \o Format(stimmung))
        score == PyMul(intensitaet, 10)
    IN  PyTuple(<<message, score>>)

----------------------------------------------------------------------------
(* Components *)

(***************************************************************************)
(* A component is created once, when the script builds its UI; only its    *)
(* current value (kept in the variable value) changes afterwards.          *)
(* gr.Interface passes its components anonymously; they carry here the     *)
(* names of their counterparts in the Blocks scripts.                      *)
(* interactive is what the script declares (interactive=False on the       *)
(* Blocks outputs) or, where it declares nothing, what Gradio derives from *)
(* the component's role: an input is editable, an output is not.           *)
(* value is the declared start value, PyNone where none is declared.       *)
(***************************************************************************)
Textbox(name, label, interactive) ==
    [name |-> name, kind |-> "Textbox", label |-> label, interactive |-> interactive]

Dropdown(name, choices, label, interactive) ==
    [name |-> name, kind |-> "Dropdown", choices |-> choices, label |-> label,
     value |-> PyNone, interactive |-> interactive]

Slider(name, minimum, maximum, val, step, label, interactive) ==
    [name |-> name, kind |-> "Slider", minimum |-> minimum, maximum |-> maximum,
     value |-> val, step |-> step, label |-> label, interactive |-> interactive]

Number(name, label, interactive) ==
    [name |-> name, kind |-> "Number", label |-> label, interactive |-> interactive]

\* The value a component shows when the UI is launched.
InitialValue(f) ==
    CASE f.kind = "Textbox" -> PyStr("")
      [] f.kind = "Dropdown" -> f.value
      [] f.kind = "Slider" -> IF f.value = PyNone THEN PyInt(f.minimum) ELSE f.value
      [] f.kind = "Number" -> PyNone

\* Mutant of SliderValues: the slider also reaches the position below its minimum.
SliderValues_below_minimum(f) ==
    {i \in (f.minimum - f.step)..f.maximum : (i - f.minimum) % f.step = 0}

\* The positions of a slider: minimum, minimum + step, ..., up to maximum.
SliderValues(f) == {i \in f.minimum..f.maximum : (i - f.minimum) % f.step = 0}

\* The values the user can give a component.
UserValues(f) ==
    CASE f.kind = "Textbox" -> {PyStr(n) : n \in Names}
      [] f.kind = "Dropdown" -> {PyStr(f.choices[i]) : i \in 1..Len(f.choices)}
      [] f.kind = "Slider" -> {PyInt(i) : i \in SliderValues(f)}
      [] f.kind = "Number" -> {}

----------------------------------------------------------------------------
(* The four bindings *)

Scripts ==
    {"hello_gradio", "hello_gradio_blocks", "gradio_components", "gradio_components_blocks"}

\* Mutant of hello_gradio: a second output field is declared for the one returned value.
hello_gradio_two_outputs ==
    [fn |-> "greet",
     inputs |-> <<Textbox("name_input", "Name eingeben", TRUE)>>,
     outputs |-> <<Textbox("output_box", "Begr\\u00FC\\u00DFung", FALSE),
                   Textbox("output_box_2", "Begr\\u00FC\\u00DFung", FALSE)>>,
     trigger |-> "Submit"]

\* gr.Interface(fn=greet, inputs=gr.Textbox(...), outputs=gr.Textbox(...))
hello_gradio ==
    [fn |-> "greet",
     inputs |-> <<Textbox("name_input", "Name eingeben", TRUE)>>,
     outputs |-> <<Textbox("output_box", "Begr\\u00FC\\u00DFung", FALSE)>>,
     trigger |-> "Submit"]

\* Mutant of hello_gradio_blocks: output_box is declared without interactive=False.
hello_gradio_blocks_editable ==
    [fn |-> "greet",
     inputs |-> <<Textbox("name_input", "Name eingeben", TRUE)>>,
     outputs |-> <<Textbox("output_box", "Begr\\u00FC\\u00DFung", TRUE)>>,
     trigger |-> "Begr\\u00FC\\u00DFen"]

\* greet_button.click(greet, inputs=name_input, outputs=output_box)
hello_gradio_blocks ==
    [fn |-> "greet",
     inputs |-> <<Textbox("name_input", "Name eingeben", TRUE)>>,
     outputs |-> <<Textbox("output_box", "Begr\\u00FC\\u00DFung", FALSE)>>,
     trigger |-> "Begr\\u00FC\\u00DFen"]

\* Mutant of gradio_components: the message is written back into the name
\* field (outputs=[name_input, score_output]).
gradio_components_echo ==
    [fn |-> "compute",
     inputs |-> <<Textbox("name_input", "Name eingeben", TRUE),
                  Dropdown("mood_input", <<"gl\\u00FCcklich", "traurig", "aufgeregt">>,
                           "Stimmung ausw\\u00E4hlen", TRUE),
                  Slider("intensity_input", 1, 10, PyNone, 1,
                         "Intensit\\u00E4t der Stimmung", TRUE)>>,
     outputs |-> <<Textbox("name_input", "Name eingeben", TRUE),
                   Number("score_output", "Stimmungswert", FALSE)>>,
     trigger |-> "Submit"]

\* gr.Interface(fn=compute, inputs=[Textbox, Dropdown, Slider], outputs=[Textbox, Number])
gradio_components ==
    [fn |-> "compute",
     inputs |-> <<Textbox("name_input", "Name eingeben", TRUE),
                  Dropdown("mood_input", <<"gl\\u00FCcklich", "traurig", "aufgeregt">>,
                           "Stimmung ausw\\u00E4hlen", TRUE),
                  Slider("intensity_input", 1, 10, PyNone, 1,
                         "Intensit\\u00E4t der Stimmung", TRUE)>>,
     outputs |-> <<Textbox("message_output", "Nachricht", FALSE),
                   Number("score_output", "Stimmungswert", FALSE)>>,
     trigger |-> "Submit"]

\* Mutant of gradio_components_blocks: the inputs are listed in another order
\* than the parameters of compute (mood_input before name_input).
gradio_components_blocks_swapped ==
    [fn |-> "compute",
     inputs |-> <<Dropdown("mood_input", <<"gl\\u00FCcklich", "traurig", "aufgeregt">>,
                           "Stimmung ausw\\u00E4hlen", TRUE),
                  Textbox("name_input", "Name eingeben", TRUE),
                  Slider("intensity_input", 1, 10, PyInt(5), 1,
                         "Intensit\\u00E4t der Stimmung", TRUE)>>,
     outputs |-> <<Textbox("message_output", "Nachricht", FALSE),
                   Number("score_output", "Stimmungswert", FALSE)>>,
     trigger |-> "Berechnen"]

\* compute_button.click(compute, inputs=[name_input, mood_input, intensity_input],
\*                      outputs=[message_output, score_output])
gradio_components_blocks ==
    [fn |-> "compute",
     inputs |-> <<Textbox("name_input", "Name eingeben", TRUE),
                  Dropdown("mood_input", <<"gl\\u00FCcklich", "traurig", "aufgeregt">>,
                           "Stimmung ausw\\u00E4hlen", TRUE),
                  Slider("intensity_input", 1, 10, PyInt(5), 1,
                         "Intensit\\u00E4t der Stimmung", TRUE)>>,
     outputs |-> <<Textbox("message_output", "Nachricht", FALSE),
                   Number("score_output", "Stimmungswert", FALSE)>>,
     trigger |-> "Berechnen"]

Binding(s) ==
    CASE s = "hello_gradio" -> hello_gradio
      [] s = "hello_gradio_blocks" -> hello_gradio_blocks
      [] s = "gradio_components" -> gradio_components
      [] s = "gradio_components_blocks" -> gradio_components_blocks

\* The parameters of the backend function a script defines, in order.
Signature(s) ==
    CASE s = "hello_gradio" -> <<"name">>
      [] s = "hello_gradio_blocks" -> <<"name">>
      [] s = "gradio_components" -> <<"name", "stimmung", "intensitaet">>
      [] s = "gradio_components_blocks" -> <<"name", "stimmung", "intensitaet">>

\* fn(*args): the k-th value is the k-th positional argument.
Call(s, args) ==
    CASE s = "hello_gradio" -> greet(args[1])
      [] s = "hello_gradio_blocks" -> greet_blocks(args[1])
      [] s = "gradio_components" -> compute(args[1], args[2], args[3])
      [] s = "gradio_components_blocks" -> compute_blocks(args[1], args[2], args[3])

----------------------------------------------------------------------------
(* State *)

Launched == DOMAIN value

Components(s) == fields[s].inputs \o fields[s].outputs

\* The current values of the input fields and of the output fields, in order.
Inputs(s) == [k \in 1..Len(fields[s].inputs) |-> value[s][fields[s].inputs[k].name]]
Outputs(s) == [i \in 1..Len(fields[s].outputs) |-> value[s][fields[s].outputs[i].name]]

\* The values of the input fields at launch.
Defaults(s) == [k \in 1..Len(Binding(s).inputs) |-> InitialValue(Binding(s).inputs[k])]

(***************************************************************************)
(* The observer of repeated invocations.  It is "off", or it starts        *)
(* "armed"; an armed observer may remember the inputs and the outputs of   *)
(* one trigger event of its choice ("sampled", seen = <<that event>>); at  *)
(* a later trigger event that fires with the remembered inputs and leaves  *)
(* the remembered outputs it may stop ("done").  The variables last and    *)
(* ref record what happened; no step of a script reads them.               *)
(***************************************************************************)
Observer(mode) == [mode |-> mode, seen |-> <<>>]

ObserverMoves == {"keep", "sample", "release"}

\* The observer of script s after a trigger event with these inputs and outputs.
Observe(s, move, inputs, outputs) ==
    IF move = "sample" /\ ref[s].mode = "armed"
    THEN [mode |-> "sampled", seen |-> <<[inputs |-> inputs, outputs |-> outputs]>>]
    ELSE IF /\ move = "release"
            /\ ref[s].mode = "sampled"
            /\ ref[s].seen[1] = [inputs |-> inputs, outputs |-> outputs]
         THEN [mode |-> "done", seen |-> <<>>]
         ELSE ref[s]

\* The scripts of the set run are launched: every component is built and
\* shows its initial value, and no event has fired.
Launch(run, mode) ==
    /\ fields = [s \in run |-> Binding(s)]
    /\ value = [s \in run |->
                  LET all == Binding(s).inputs \o Binding(s).outputs
                  IN  [c \in {all[k].name : k \in 1..Len(all)} |->
                          InitialValue(all[CHOOSE k \in 1..Len(all) : all[k].name = c])]]
    /\ last = [s \in run |-> <<>>]
    /\ ref = [s \in run |-> Observer(mode)]

\* One script is run.
Init == \E s \in Scripts : Launch({s}, "off")

----------------------------------------------------------------------------
(* User edits *)

\* Whether the user can give component c of script s the value v: the script
\* has an interactive component of that name and kind, and v is one of the
\* values its widget offers.
Editable(s, kind, c, v) ==
    \E k \in 1..Len(Components(s)) :
        LET f == Components(s)[k]
        IN  f.name = c /\ f.kind = kind /\ f.interactive /\ v \in UserValues(f)

\* The user gives component c of script s0 the value v; every other launched
\* script that has such a component gets the same edit (scripts run side by
\* side get the same user actions).
Edit(s0, kind, c, v) ==
    /\ value' = [s \in Launched |->
                    IF s = s0 \/ Editable(s, kind, c, v)
                    THEN [value[s] EXCEPT ![c] = v]
                    ELSE value[s]]
    /\ UNCHANGED <<fields, last, ref>>

\* The user edits an interactive component of the given kind: the widget
\* offers the values of UserValues and nothing else.
UserEdit(kind) ==
    \E s0 \in Launched :
        \E k \in 1..Len(Components(s0)) :
            LET f == Components(s0)[k]
            IN  /\ f.kind = kind
                /\ f.interactive
                /\ \E v \in UserValues(f) : Edit(s0, kind, f.name, v)

\* The user types a text into a text box.
TypeText == UserEdit("Textbox")

\* The user selects one of the choices of a dropdown.
SelectChoice == UserEdit("Dropdown")

\* The user moves a slider to one of its positions.
MoveSlider == UserEdit("Slider")

----------------------------------------------------------------------------
(* The trigger event *)

\* The values written to the output fields: a binding with one output field
\* takes the returned value as it is, otherwise the i-th element of the
\* returned tuple goes to the i-th output field.
Predictions(s, result) == IF Len(fields[s].outputs) = 1 THEN <<result>> ELSE result.tuple

\* The values of script s after its trigger event: the current values of the
\* input fields are read in order, the backend function is called with them
\* as positional arguments, and the output fields are set from what it returns.
Fire(s) ==
    LET predictions == Predictions(s, Call(s, Inputs(s)))
    IN  [c \in DOMAIN value[s] |->
            IF \E i \in 1..Len(fields[s].outputs) : fields[s].outputs[i].name = c
            THEN predictions[CHOOSE i \in 1..Len(fields[s].outputs) :
                                 fields[s].outputs[i].name = c]
            ELSE value[s][c]]

\* Submit (gr.Interface) or the click of the button (gr.Blocks).
Trigger ==
    /\ UNCHANGED fields
    /\ value' = [s \in Launched |-> Fire(s)]
    /\ last' = [s \in Launched |-> <<Inputs(s)>>]
    /\ \E move \in {m \in ObserverMoves : m = "keep" \/ \E s \in Launched : ref[s].mode # "off"} :
           ref' = [s \in Launched |-> Observe(s, move, Inputs(s), Outputs(s)')]

Next ==
    \/ TypeText
    \/ SelectChoice
    \/ MoveSlider
    \/ Trigger

Spec == Init /\ [][Next]_vars

\* gradio_components.py and gradio_components_blocks.py run side by side.
InitSideBySide == Launch({"gradio_components", "gradio_components_blocks"}, "off")

SpecSideBySide == InitSideBySide /\ [][Next]_vars

\* One script is run and the observer of repeated invocations is armed.
InitRepeat == \E s \in Scripts : Launch({s}, "armed")

SpecRepeat == InitRepeat /\ [][Next]_vars

----------------------------------------------------------------------------
(* Properties *)

GreetScripts == {"hello_gradio", "hello_gradio_blocks"}
ComputeScripts == {"gradio_components", "gradio_components_blocks"}

\* A trigger event of script s has fired; Payload(s) is what the last one read.
Fired(s) == last[s] # <<>>
Payload(s) == last[s][1]

\* C1: in every script, right after a trigger event the output fields hold
\* the result of the backend function applied to the values the input fields
\* had when the event fired: name_input is passed as name, mood_input as
\* stimmung, intensity_input as intensitaet; the message goes to
\* message_output and the score to score_output (the greeting to output_box).
BindingContract ==
    [][Trigger =>
        \A s \in Launched :
            CASE s = "hello_gradio" ->
                    value'[s]["output_box"] = greet(value[s]["name_input"])
              [] s = "hello_gradio_blocks" ->
                    value'[s]["output_box"] = greet_blocks(value[s]["name_input"])
              [] s = "gradio_components" ->
                    LET result == compute(value[s]["name_input"], value[s]["mood_input"],
                                          value[s]["intensity_input"])
                    IN  /\ value'[s]["message_output"] = result.tuple[1]
                        /\ value'[s]["score_output"] = result.tuple[2]
              [] s = "gradio_components_blocks" ->
                    LET result == compute_blocks(value[s]["name_input"], value[s]["mood_input"],
                                                 value[s]["intensity_input"])
                    IN  /\ value'[s]["message_output"] = result.tuple[1]
                        /\ value'[s]["score_output"] = result.tuple[2]
    ]_vars

\* C1 witness: a trigger event has fired with edited inputs and the outputs hold its result.
BindingContractWitness ==
    \E s \in Launched \cap ComputeScripts :
        /\ last[s] = << <<PyStr("Anna"), PyStr("traurig"), PyInt(7)>> >>
        /\ value[s]["message_output"] = PyStr("Anna f\\u00FChlt sich traurig")
        /\ value[s]["score_output"] = PyInt(70)

\* The pair the claim C2 names for a name, a stimmung and an intensitaet.
MoodPair(name, stimmung, intensitaet) ==
    PyTuple(<<PyStr(name \o " f\\u00FChlt sich " \o stimmung), PyInt(intensitaet * 10)>>)

\* C2: for every name, every stimmung (a str) and every integer intensitaet,
\* compute returns (name + " fühlt sich " + stimmung, intensitaet * 10), in
\* both scripts that define compute, for the values the input fields hold and
\* for the values a trigger event has read;
\* compute("Anna", "glücklich", 5) = ("Anna fühlt sich glücklich", 50).
ComputeResult ==
    /\ compute(PyStr("Anna"), PyStr("gl\\u00FCcklich"), PyInt(5))
           = PyTuple(<<PyStr("Anna f\\u00FChlt sich gl\\u00FCcklich"), PyInt(50)>>)
    /\ compute_blocks(PyStr("Anna"), PyStr("gl\\u00FCcklich"), PyInt(5))
           = PyTuple(<<PyStr("Anna f\\u00FChlt sich gl\\u00FCcklich"), PyInt(50)>>)
    /\ \A s \in Launched \cap ComputeScripts :
          LET name == value[s]["name_input"]
              stimmung == value[s]["mood_input"]
              intensitaet == value[s]["intensity_input"]
          IN  /\ IsStr(stimmung) =>
                    (IF s = "gradio_components"
                     THEN compute(name, stimmung, intensitaet)
                     ELSE compute_blocks(name, stimmung, intensitaet))
                        = MoodPair(name.str, stimmung.str, intensitaet.int)
              /\ Fired(s) /\ IsStr(Payload(s)[2]) =>
                    PyTuple(Outputs(s))
                        = MoodPair(Payload(s)[1].str, Payload(s)[2].str, Payload(s)[3].int)

\* C2 witness: compute has been called with ("Anna", "glücklich", 5) and has returned the pair.
ComputeResultWitness ==
    \E s \in Launched \cap ComputeScripts :
        /\ last[s] = << <<PyStr("Anna"), PyStr("gl\\u00FCcklich"), PyInt(5)>> >>
        /\ Outputs(s) = <<PyStr("Anna f\\u00FChlt sich gl\\u00FCcklich"), PyInt(50)>>

\* C3: for every input string name, the empty one included, greet(name) is
\* exactly "Hallo, " + name + "!! <U+1F642>", in both scripts that define
\* greet, for the text the input field holds and for the text a trigger
\* event has read; greet("World") = "Hallo, World!! <U+1F642>".
GreetResult ==
    /\ greet(PyStr("World")) = PyStr("Hallo, World!! \\U0001F642")
    /\ greet_blocks(PyStr("World")) = PyStr("Hallo, World!! \\U0001F642")
    /\ \A s \in Launched \cap GreetScripts :
          LET name == value[s]["name_input"]
          IN  /\ (IF s = "hello_gradio" THEN greet(name) ELSE greet_blocks(name))
                     = PyStr("Hallo, " \o name.str \o "!! \\U0001F642")
              /\ Fired(s) =>
                     value[s]["output_box"]
                         = PyStr("Hallo, " \o Payload(s)[1].str \o "!! \\U0001F642")

\* C3 witness: greet has been called with the empty string.
GreetResultWitness ==
    \E s \in Launched \cap GreetScripts :
        /\ last[s] = << <<PyStr("")>> >>
        /\ value[s]["output_box"] = PyStr("Hallo, !! \\U0001F642")

\* C4: a trigger event that fires with the same input values as a trigger
\* event the observer remembered leaves the same values in the output fields,
\* whatever edits and trigger events happened before or between the two.
RepeatedInvocation ==
    \A s \in Launched :
        ref[s].mode = "sampled" /\ last[s] = <<ref[s].seen[1].inputs>> =>
            Outputs(s) = ref[s].seen[1].outputs

\* C4 witness: after the remembered trigger event, a later one has fired with
\* the same inputs (the observer is done), here of the compute binding.
RepeatedInvocationWitness ==
    \E s \in Launched \cap ComputeScripts :
        /\ ref[s].mode = "done"
        /\ last[s] = << <<PyStr("Anna"), PyStr("aufgeregt"), PyInt(3)>> >>

\* The values a call returns: the elements of a tuple, or the one value.
ReturnValues(result) == IF IsTuple(result) THEN result.tuple ELSE <<result>>

\* C5 as stated: len(input_fields) = arity(function) and
\* len(output_fields) = len(function(*defaults)), for every binding.
ArityLen ==
    \A s \in Launched :
        /\ Len(fields[s].inputs) = Len(Signature(s))
        /\ Len(fields[s].outputs) = PyLen(Call(s, Defaults(s)))

\* C5 (amended): for every binding, the number of input fields is the number
\* of parameters of the function, and the number of output fields is the
\* number of values the function returns for the defaults: the elements of a
\* returned tuple, or one for a value that is no tuple (the str of greet).
ArityProperty ==
    \A s \in Launched :
        /\ Len(fields[s].inputs) = Len(Signature(s))
        /\ Len(fields[s].outputs) = Len(ReturnValues(Call(s, Defaults(s))))

\* C5 witness: a greet binding has fired with its defaults; its one output
\* field holds the returned str, whose len is not 1.
ArityPropertyWitness ==
    \E s \in Launched \cap GreetScripts :
        /\ last[s] = <<Defaults(s)>>
        /\ Outputs(s) = <<Call(s, Defaults(s))>>
        /\ ~IsTuple(Call(s, Defaults(s)))
        /\ PyLen(Call(s, Defaults(s))) # Len(fields[s].outputs)

\* C6: run side by side on the same user actions, gradio_components.py and
\* gradio_components_blocks.py hold equal values in message_output and
\* score_output after every step.
SameFunctionality ==
    Outputs("gradio_components") = Outputs("gradio_components_blocks")

\* C9: the intensity slider holds an integer in 1..10, the mood dropdown is
\* unselected or holds one of the three moods, and the score output is empty
\* or one of 10, 20, ..., 100.
ValueRanges ==
    \A s \in Launched \cap ComputeScripts :
        /\ \E i \in 1..10 : value[s]["intensity_input"] = PyInt(i)
        /\ \/ value[s]["mood_input"] = PyNone
           \/ \E m \in {"gl\\u00FCcklich", "traurig", "aufgeregt"} : value[s]["mood_input"] = PyStr(m)
        /\ \/ value[s]["score_output"] = PyNone
           \/ \E i \in 1..10 : value[s]["score_output"] = PyInt(10 * i)

\* C9 witness: the slider at its maximum has been scored while no mood was selected.
ValueRangesWitness ==
    \E s \in Launched \cap ComputeScripts :
        /\ value[s]["mood_input"] = PyNone
        /\ value[s]["intensity_input"] = PyInt(10)
        /\ value[s]["score_output"] = PyInt(100)

\* The output fields as the last trigger event left them, or as launched.
OutputsOfLastTrigger(s) ==
    IF Fired(s)
    THEN Predictions(s, Call(s, Payload(s)))
    ELSE [i \in 1..Len(fields[s].outputs) |-> InitialValue(fields[s].outputs[i])]

InputNames(s) ==
    IF s \in ComputeScripts
    THEN {"name_input", "mood_input", "intensity_input"}
    ELSE {"name_input"}

\* C11: a trigger event changes only the output fields of its binding: every
\* input field (name, mood, intensity) holds the same value after the event
\* as before it, and the definition of every field (kind, label, choices,
\* range, start value) is the same after the event as before it.
TriggerFrame ==
    [][Trigger =>
        \A s \in Launched :
            /\ Inputs(s)' = Inputs(s)
            /\ \A c \in InputNames(s) : value'[s][c] = value[s][c]
            /\ fields'[s] = fields[s]
            /\ fields'[s] = Binding(s)
    ]_vars

\* C11 witness: a compute binding has fired on edited inputs: its outputs
\* hold the result, its inputs still hold what the event read, and its
\* fields are as declared.
TriggerFrameWitness ==
    \E s \in Launched \cap ComputeScripts :
        /\ last[s] = << <<PyStr("Anna"), PyStr("aufgeregt"), PyInt(9)>> >>
        /\ Inputs(s) = Payload(s)
        /\ Outputs(s) = <<PyStr("Anna f\\u00FChlt sich aufgeregt"), PyInt(90)>>
        /\ fields[s] = Binding(s)

====
